---------------------------- MODULE Spec2Model ----------------------------
(***************************************************************************)
(* Broadcom STB AVS TMON thermal sensor driver                             *)
(* (drivers/thermal/broadcom/brcmstb_thermal.c).                           *)
(*                                                                         *)
(* A u32 register word is the set of its set bit positions (a subset of    *)
(* 0..31), so the C operators &, |, ~, << and >> are set operations and    *)
(* all 32 bits are kept.  Temperatures are C ints (millidegree Celsius).   *)
(***************************************************************************)
EXTENDS Integers, Sequences, FiniteSets, TLC

(* ------------------------------------------------------------------ *)
(* Register offsets and hardware constants                             *)
(* ------------------------------------------------------------------ *)
AVS_TMON_STATUS == 0
AVS_TMON_EN_OVERTEMP_RESET == 4
AVS_TMON_RESET_THRESH == 8
AVS_TMON_EN_TEMP_INT_SRCS == 20
AVS_TMON_INT_THRESH == 24
AVS_TMON_TEMP_INT_CODE == 28

AVS_TMON_TEMP_SLOPE == 487
AVS_TMON_TEMP_OFFSET == 410040
AVS_TMON_TEMP_MAX == 1023
AVS_TMON_TEMP_MIN == -88161

TMON_TRIP_TYPE_LOW == 0
TMON_TRIP_TYPE_HIGH == 1
TMON_TRIP_TYPE_RESET == 2

INT_MAX == 2147483647
INT_MIN == -INT_MAX - 1
EIO == 5
IRQ_HANDLED == 1

(* ------------------------------------------------------------------ *)
(* u32 words as bit sets                                               *)
(* ------------------------------------------------------------------ *)
WordBits == 0..31
Word == SUBSET WordBits

BIT(n) == {n}
GENMASK(h, l) == l..h

W_AND(a, b) == a \cap b
W_OR(a, b) == a \cup b
W_NOT(a) == WordBits \ a
W_SHL(a, s) == {b + s : b \in a} \cap WordBits
W_SHR(a, s) == {b - s : b \in a} \cap WordBits

(* The word of a non-negative int below 2^31, and the value of a word     *)
(* whose bit 31 is clear.                                                  *)
U32(n) == {b \in 0..30 : (n \div (2 ^ b)) % 2 = 1}

RECURSIVE W_VAL(_)
W_VAL(w) ==
    IF w = {} THEN 0
    ELSE LET b == CHOOSE x \in w : TRUE
         IN  (2 ^ b) + W_VAL(w \ {b})

(* C integer division truncates toward zero. *)
C_DIV(a, b) ==
    IF a >= 0 THEN a \div b ELSE -((-a) \div b)

DIV_ROUND_UP(n, d) == C_DIV(n + d - 1, d)

(* ------------------------------------------------------------------ *)
(* Code/temperature conversion                                         *)
(* ------------------------------------------------------------------ *)
(* Mutant: the code masked to 9 bits instead of 10. *)
avs_tmon_code_to_temp_mask9(code) ==
    AVS_TMON_TEMP_OFFSET
      - W_VAL(W_AND(code, GENMASK(8, 0))) * AVS_TMON_TEMP_SLOPE

(* Mutant: the code masked to 11 bits. *)
avs_tmon_code_to_temp_mask11(code) ==
    AVS_TMON_TEMP_OFFSET
      - W_VAL(W_AND(code, GENMASK(10, 0))) * AVS_TMON_TEMP_SLOPE

avs_tmon_code_to_temp(code) ==
    AVS_TMON_TEMP_OFFSET
      - W_VAL(W_AND(code, U32(AVS_TMON_TEMP_MAX))) * AVS_TMON_TEMP_SLOPE

(* Mutant: the rounding directions exchanged. *)
avs_tmon_temp_to_code_swapround(temp, low) ==
    IF temp < AVS_TMON_TEMP_MIN THEN U32(AVS_TMON_TEMP_MAX)
    ELSE IF temp >= AVS_TMON_TEMP_OFFSET THEN U32(0)
    ELSE IF low
         THEN U32(C_DIV(AVS_TMON_TEMP_OFFSET - temp, AVS_TMON_TEMP_SLOPE))
         ELSE U32(DIV_ROUND_UP(AVS_TMON_TEMP_OFFSET - temp, AVS_TMON_TEMP_SLOPE))

(* Mutant: the two saturation values exchanged. *)
avs_tmon_temp_to_code_swapsat(temp, low) ==
    IF temp < AVS_TMON_TEMP_MIN THEN U32(0)
    ELSE IF temp >= AVS_TMON_TEMP_OFFSET THEN U32(AVS_TMON_TEMP_MAX)
    ELSE IF low
         THEN U32(DIV_ROUND_UP(AVS_TMON_TEMP_OFFSET - temp, AVS_TMON_TEMP_SLOPE))
         ELSE U32(C_DIV(AVS_TMON_TEMP_OFFSET - temp, AVS_TMON_TEMP_SLOPE))

avs_tmon_temp_to_code(temp, low) ==
    IF temp < AVS_TMON_TEMP_MIN THEN U32(AVS_TMON_TEMP_MAX)
    ELSE IF temp >= AVS_TMON_TEMP_OFFSET THEN U32(0)
    ELSE IF low
         THEN U32(DIV_ROUND_UP(AVS_TMON_TEMP_OFFSET - temp, AVS_TMON_TEMP_SLOPE))
         ELSE U32(C_DIV(AVS_TMON_TEMP_OFFSET - temp, AVS_TMON_TEMP_SLOPE))


(* ------------------------------------------------------------------ *)
(* Trip descriptor table and per-variant status layout                 *)
(* ------------------------------------------------------------------ *)
TripTypes == {TMON_TRIP_TYPE_LOW, TMON_TRIP_TYPE_HIGH, TMON_TRIP_TYPE_RESET}

(* Mutant: the LOW entry pointing at the RESET trip's registers. *)
avs_tmon_trips_mixed(type) ==
    CASE type = TMON_TRIP_TYPE_HIGH ->
           [enable_offs |-> AVS_TMON_EN_TEMP_INT_SRCS, enable_mask |-> BIT(1),
            reg_offs |-> AVS_TMON_INT_THRESH, reg_msk |-> GENMASK(26, 17),
            reg_shift |-> 17]
      [] OTHER ->
           [enable_offs |-> AVS_TMON_EN_OVERTEMP_RESET, enable_mask |-> BIT(0),
            reg_offs |-> AVS_TMON_RESET_THRESH, reg_msk |-> GENMASK(10, 1),
            reg_shift |-> 1]

avs_tmon_trips(type) ==
    CASE type = TMON_TRIP_TYPE_LOW ->
           [enable_offs |-> AVS_TMON_EN_TEMP_INT_SRCS, enable_mask |-> BIT(0),
            reg_offs |-> AVS_TMON_INT_THRESH, reg_msk |-> GENMASK(10, 1),
            reg_shift |-> 1]
      [] type = TMON_TRIP_TYPE_HIGH ->
           [enable_offs |-> AVS_TMON_EN_TEMP_INT_SRCS, enable_mask |-> BIT(1),
            reg_offs |-> AVS_TMON_INT_THRESH, reg_msk |-> GENMASK(26, 17),
            reg_shift |-> 17]
      [] type = TMON_TRIP_TYPE_RESET ->
           [enable_offs |-> AVS_TMON_EN_OVERTEMP_RESET, enable_mask |-> BIT(0),
            reg_offs |-> AVS_TMON_RESET_THRESH, reg_msk |-> GENMASK(10, 1),
            reg_shift |-> 1]

bcm7445_thermal_of_data ==
    [name |-> "bcm7445", of_ops |-> {"get_temp", "set_trips"},
     status_valid_mask |-> BIT(11), status_data_mask |-> GENMASK(10, 1),
     status_data_shift |-> 1]

bcm2711_thermal_of_data ==
    [name |-> "bcm2711", of_ops |-> {"get_temp"},
     status_valid_mask |-> BIT(10), status_data_mask |-> GENMASK(9, 0),
     status_data_shift |-> 0]

brcmstb_thermal_id_table == {bcm7445_thermal_of_data, bcm2711_thermal_of_data}

RegOffsets ==
    {AVS_TMON_STATUS, AVS_TMON_EN_OVERTEMP_RESET, AVS_TMON_RESET_THRESH,
     AVS_TMON_EN_TEMP_INT_SRCS, AVS_TMON_INT_THRESH, AVS_TMON_TEMP_INT_CODE}

(* ------------------------------------------------------------------ *)
(* Trip register access layer: the computation between the readl and   *)
(* the writel of each helper, and each helper as one whole call on a   *)
(* register file r.                                                    *)
(* ------------------------------------------------------------------ *)
(* Mutant: the enable mask written without the rest of the word. *)
trip_enable_val_clobber(val, type, en) ==
    IF en # 0 THEN avs_tmon_trips(type).enable_mask ELSE {}

trip_enable_val(val, type, en) ==
    IF en # 0
    THEN W_OR(val, avs_tmon_trips(type).enable_mask)
    ELSE W_AND(val, W_NOT(avs_tmon_trips(type).enable_mask))

avs_tmon_trip_enable(r, type, en) ==
    [r EXCEPT ![avs_tmon_trips(type).enable_offs] =
        trip_enable_val(r[avs_tmon_trips(type).enable_offs], type, en)]

trip_temp_of(val, type) ==
    avs_tmon_code_to_temp(
        W_SHR(W_AND(val, avs_tmon_trips(type).reg_msk),
              avs_tmon_trips(type).reg_shift))

avs_tmon_get_trip_temp(r, type) ==
    trip_temp_of(r[avs_tmon_trips(type).reg_offs], type)

(* Mutant: the code rounded up for both kinds of trip. *)
trip_temp_val_roundup(type, temp) ==
    W_AND(W_SHL(avs_tmon_temp_to_code(temp, TRUE),
                avs_tmon_trips(type).reg_shift),
          avs_tmon_trips(type).reg_msk)

trip_temp_val(type, temp) ==
    W_AND(W_SHL(avs_tmon_temp_to_code(temp, type = TMON_TRIP_TYPE_LOW),
                avs_tmon_trips(type).reg_shift),
          avs_tmon_trips(type).reg_msk)

(* Mutant: the new field written without the rest of the word. *)
trip_temp_merge_clobber(orig, val, type) == val

trip_temp_merge(orig, val, type) ==
    W_OR(W_AND(orig, W_NOT(avs_tmon_trips(type).reg_msk)), val)

avs_tmon_set_trip_temp(r, type, temp) ==
    [r EXCEPT ![avs_tmon_trips(type).reg_offs] =
        trip_temp_merge(r[avs_tmon_trips(type).reg_offs],
                        trip_temp_val(type, temp), type)]

(* Mutant: the temperature taken from a fresh STATUS read. *)
avs_tmon_get_intr_temp_status(r) ==
    avs_tmon_code_to_temp(W_SHR(r[AVS_TMON_STATUS], 1))

avs_tmon_get_intr_temp(r) ==
    avs_tmon_code_to_temp(r[AVS_TMON_TEMP_INT_CODE])

(* Mutant: the valid bit not tested. *)
get_temp_result_novalid(sd, status, out) ==
    LET val == W_SHR(W_AND(status, sd.status_data_mask), sd.status_data_shift)
        t == avs_tmon_code_to_temp(val)
    IN  <<0, <<IF t < 0 THEN 0 ELSE t>>>>

(* Mutant: a negative temperature stored as it is. *)
get_temp_result_noclamp(sd, status, out) ==
    IF W_AND(status, sd.status_valid_mask) = {}
    THEN <<-EIO, out>>
    ELSE LET val == W_SHR(W_AND(status, sd.status_data_mask), sd.status_data_shift)
         IN  <<0, <<avs_tmon_code_to_temp(val)>>>>

(* brcmstb_get_temp on a STATUS word: <<return value, value stored>>. *)
get_temp_result(sd, status, out) ==
    IF W_AND(status, sd.status_valid_mask) = {}
    THEN <<-EIO, out>>
    ELSE LET val == W_SHR(W_AND(status, sd.status_data_mask), sd.status_data_shift)
             t == avs_tmon_code_to_temp(val)
         IN  <<0, <<IF t < 0 THEN 0 ELSE t>>>>

(* ------------------------------------------------------------------ *)
(* Bounds and sampled inputs                                           *)
(* ------------------------------------------------------------------ *)
MaxIrqRuns == 1
MaxGovCalls == 1

(* Bits of INT_THRESH outside both threshold fields, and bits of the   *)
(* enable word outside both enable bits.                               *)
ThreshJunk == {0, 11, 16, 27, 31}
EnJunk == {2, 31}

ThreshWord(lc, hc, junk) ==
    W_OR(W_OR(W_SHL(U32(lc), 1), W_SHL(U32(hc), 17)), junk)

MkRegs(st, enr, rthr, en, thr, ic) ==
    (AVS_TMON_STATUS :> st) @@ (AVS_TMON_EN_OVERTEMP_RESET :> enr)
      @@ (AVS_TMON_RESET_THRESH :> rthr) @@ (AVS_TMON_EN_TEMP_INT_SRCS :> en)
      @@ (AVS_TMON_INT_THRESH :> thr) @@ (AVS_TMON_TEMP_INT_CODE :> ic)

EnWords == {{}, {0}, {1}, {0, 1}}

(* ------------------------------------------------------------------ *)
(* State                                                               *)
(* ------------------------------------------------------------------ *)
VARIABLES
    regs,          \* the register file at priv->tmon_base, offset -> word
    socdata,       \* priv->socdata
    irq_pc,        \* position of brcmstb_tmon_irq_thread
    irq_type,      \* trip the handler is examining
    low, high, intr,   \* the handler's locals
    irq_val,       \* val of the handler's avs_tmon_trip_enable call
    irq_ret,       \* the handler's last return value
    irq_runs,      \* completed handler runs
    zone_updates,  \* temperatures passed to thermal_zone_device_update
    irq_regs0,     \* register file when the current/last handler run began
    gov_pc,        \* position of the governor's callback
    gov_type,      \* trip brcmstb_set_trips is programming
    st_low, st_high,   \* arguments of brcmstb_set_trips
    gov_val, gov_orig, gov_en, \* locals of the access helper in progress
    gov_ret,       \* the callback's last return value
    temp_out,      \* *temp of brcmstb_get_temp: <<>> until a value is stored
    gov_calls,     \* completed governor calls
    gov_op,        \* the current/last governor callback
    gov_regs0,     \* register file when the current/last callback began
    regs_init,     \* register file after probe
    acc, acc_prev, \* last and previous direct call of an access helper
    cv             \* last conversion applied

hw_vars == <<regs, socdata, regs_init>>
irq_vars == <<irq_pc, irq_type, low, high, intr, irq_val, irq_ret, irq_runs,
              zone_updates, irq_regs0>>
gov_vars == <<gov_pc, gov_type, st_low, st_high, gov_val, gov_orig, gov_en,
              gov_ret, temp_out, gov_calls, gov_op, gov_regs0>>
unit_vars == <<acc, acc_prev, cv>>
vars == <<hw_vars, irq_vars, gov_vars, unit_vars>>

(* brcmstb_thermal_probe writes no register: the register file is what  *)
(* the hardware and firmware left, and the variant is the matched one.  *)
brcmstb_thermal_probe(R, variants) ==
    /\ regs \in R
    /\ regs_init = regs
    /\ socdata \in variants
    /\ irq_pc = "idle" /\ irq_type = TMON_TRIP_TYPE_HIGH
    /\ low = 0 /\ high = 0 /\ intr = 0 /\ irq_val = {}
    /\ irq_ret = 0 /\ irq_runs = 0 /\ zone_updates = <<>>
    /\ irq_regs0 = regs
    /\ gov_pc = "idle" /\ gov_type = TMON_TRIP_TYPE_LOW
    /\ st_low = 0 /\ st_high = 0
    /\ gov_val = {} /\ gov_orig = {} /\ gov_en = 0
    /\ gov_ret = 0 /\ temp_out = <<>> /\ gov_calls = 0 /\ gov_op = "none"
    /\ gov_regs0 = regs
    /\ acc = [op |-> "none", type |-> TMON_TRIP_TYPE_LOW, arg |-> 0,
              pre |-> regs, ret |-> 0, n |-> 0]
    /\ acc_prev = [op |-> "none", type |-> TMON_TRIP_TYPE_LOW, arg |-> 0]
    /\ cv = [op |-> "none", code |-> {}, temp |-> 0, low |-> FALSE, back |-> {}]

(* ------------------------------------------------------------------ *)
(* brcmstb_tmon_irq_thread, one action per register access             *)
(* ------------------------------------------------------------------ *)
irq_read_low ==
    /\ irq_pc = "idle"
    /\ irq_runs < MaxIrqRuns
    /\ low' = avs_tmon_get_trip_temp(regs, TMON_TRIP_TYPE_LOW)
    /\ irq_regs0' = regs
    /\ irq_pc' = "rd_high"
    /\ UNCHANGED <<irq_type, high, intr, irq_val, irq_ret, irq_runs, zone_updates>>
    /\ UNCHANGED <<hw_vars, gov_vars, unit_vars>>

irq_read_high ==
    /\ irq_pc = "rd_high"
    /\ high' = avs_tmon_get_trip_temp(regs, TMON_TRIP_TYPE_HIGH)
    /\ irq_pc' = "rd_intr"
    /\ UNCHANGED <<irq_type, low, intr, irq_val, irq_ret, irq_runs, zone_updates,
                   irq_regs0>>
    /\ UNCHANGED <<hw_vars, gov_vars, unit_vars>>

irq_read_intr ==
    /\ irq_pc = "rd_intr"
    /\ intr' = avs_tmon_get_intr_temp(regs)
    /\ irq_type' = TMON_TRIP_TYPE_HIGH
    /\ irq_pc' = "chk"
    /\ UNCHANGED <<low, high, irq_val, irq_ret, irq_runs, zone_updates, irq_regs0>>
    /\ UNCHANGED <<hw_vars, gov_vars, unit_vars>>

(* Mutant: strict comparisons. *)
irq_crossed_strict(type, i, lo, hi) ==
    IF type = TMON_TRIP_TYPE_HIGH THEN i > hi ELSE i < lo

(* Mutant: only the HIGH trip is ever found crossed. *)
irq_crossed_highonly(type, i, lo, hi) ==
    type = TMON_TRIP_TYPE_HIGH /\ i >= hi

(* if (intr >= high) for HIGH, if (intr <= low) for LOW. *)
irq_crossed(type, i, lo, hi) ==
    IF type = TMON_TRIP_TYPE_HIGH THEN i >= hi ELSE i <= lo

(* The comparison and, when it holds, the readl of avs_tmon_trip_enable. *)
irq_check ==
    /\ irq_pc = "chk"
    /\ IF irq_crossed(irq_type, intr, low, high)
       THEN /\ irq_val' = regs[avs_tmon_trips(irq_type).enable_offs]
            /\ irq_pc' = "wr"
            /\ irq_type' = irq_type
       ELSE /\ irq_val' = irq_val
            /\ irq_pc' = IF irq_type = TMON_TRIP_TYPE_HIGH THEN "chk" ELSE "notify"
            /\ irq_type' = TMON_TRIP_TYPE_LOW
    /\ UNCHANGED <<low, high, intr, irq_ret, irq_runs, zone_updates, irq_regs0>>
    /\ UNCHANGED <<hw_vars, gov_vars, unit_vars>>

(* The writel of avs_tmon_trip_enable(priv, type, 0). *)
irq_enable_write ==
    /\ irq_pc = "wr"
    /\ regs' = [regs EXCEPT ![avs_tmon_trips(irq_type).enable_offs] =
                   trip_enable_val(irq_val, irq_type, 0)]
    /\ irq_pc' = IF irq_type = TMON_TRIP_TYPE_HIGH THEN "chk" ELSE "notify"
    /\ irq_type' = TMON_TRIP_TYPE_LOW
    /\ UNCHANGED <<low, high, intr, irq_val, irq_ret, irq_runs, zone_updates,
                   irq_regs0>>
    /\ UNCHANGED <<socdata, regs_init, gov_vars, unit_vars>>

(* thermal_zone_device_update(priv->thermal, intr); return IRQ_HANDLED. *)
irq_notify ==
    /\ irq_pc = "notify"
    /\ zone_updates' = Append(zone_updates, intr)
    /\ irq_ret' = IRQ_HANDLED
    /\ irq_runs' = irq_runs + 1
    /\ irq_pc' = "idle"
    /\ low' = 0 /\ high' = 0 /\ intr' = 0 /\ irq_val' = {}
    /\ irq_type' = TMON_TRIP_TYPE_HIGH
    /\ UNCHANGED irq_regs0
    /\ UNCHANGED <<hw_vars, gov_vars, unit_vars>>

brcmstb_tmon_irq_thread ==
    \/ irq_read_low
    \/ irq_read_high
    \/ irq_read_intr
    \/ irq_check
    \/ irq_enable_write
    \/ irq_notify

(* ------------------------------------------------------------------ *)
(* Governor callbacks (of_ops), called one at a time by the framework  *)
(* ------------------------------------------------------------------ *)
brcmstb_get_temp ==
    /\ gov_pc = "idle"
    /\ gov_calls < MaxGovCalls
    /\ "get_temp" \in socdata.of_ops
    /\ LET res == get_temp_result(socdata, regs[AVS_TMON_STATUS], temp_out)
       IN  /\ gov_ret' = res[1]
           /\ temp_out' = res[2]
    /\ gov_op' = "get_temp"
    /\ gov_regs0' = regs
    /\ gov_calls' = gov_calls + 1
    /\ UNCHANGED <<gov_pc, gov_type, st_low, st_high, gov_val, gov_orig, gov_en>>
    /\ UNCHANGED <<hw_vars, irq_vars, unit_vars>>

set_trips_enter(l, h) ==
    /\ gov_pc = "idle"
    /\ gov_calls < MaxGovCalls
    /\ "set_trips" \in socdata.of_ops
    /\ st_low' = l
    /\ st_high' = h
    /\ gov_type' = TMON_TRIP_TYPE_LOW
    /\ gov_op' = "set_trips"
    /\ gov_regs0' = regs
    /\ gov_pc' = "begin"
    /\ UNCHANGED <<gov_val, gov_orig, gov_en, gov_ret, temp_out, gov_calls>>
    /\ UNCHANGED <<hw_vars, irq_vars, unit_vars>>

(* Mutant: INT_MIN taken as the low sentinel. *)
trip_absent_intmin(type, l, h) ==
    IF type = TMON_TRIP_TYPE_LOW THEN l <= INT_MIN ELSE h = INT_MAX

(* Mutant: the bounds next to the sentinels taken as absent too. *)
trip_absent_near(type, l, h) ==
    IF type = TMON_TRIP_TYPE_LOW THEN l <= -INT_MAX + 1 ELSE h >= INT_MAX - 1

(* if (low <= -INT_MAX) for LOW, if (high == INT_MAX) for HIGH. *)
trip_absent(type, l, h) ==
    IF type = TMON_TRIP_TYPE_LOW THEN l <= -INT_MAX ELSE h = INT_MAX

trip_bound(type, l, h) ==
    IF type = TMON_TRIP_TYPE_LOW THEN l ELSE h

(* The sentinel test, then the first readl of the branch taken: of the  *)
(* enable word (avs_tmon_trip_enable(.., 0)) or of the threshold word   *)
(* (avs_tmon_set_trip_temp).                                            *)
set_trips_begin ==
    /\ gov_pc = "begin"
    /\ IF trip_absent(gov_type, st_low, st_high)
       THEN /\ gov_val' = regs[avs_tmon_trips(gov_type).enable_offs]
            /\ gov_en' = 0
            /\ gov_orig' = gov_orig
            /\ gov_pc' = "en_wr"
       ELSE /\ gov_val' = trip_temp_val(gov_type,
                                        trip_bound(gov_type, st_low, st_high))
            /\ gov_orig' = regs[avs_tmon_trips(gov_type).reg_offs]
            /\ gov_en' = gov_en
            /\ gov_pc' = "thr_wr"
    /\ UNCHANGED <<gov_type, st_low, st_high, gov_ret, temp_out, gov_calls,
                   gov_op, gov_regs0>>
    /\ UNCHANGED <<hw_vars, irq_vars, unit_vars>>

(* Mutant: the enable bit set where the threshold should be written. *)
set_trips_thresh_write_enable_first ==
    /\ gov_pc = "thr_wr"
    /\ regs' = [regs EXCEPT ![avs_tmon_trips(gov_type).enable_offs] =
                   trip_enable_val(regs[avs_tmon_trips(gov_type).enable_offs],
                                   gov_type, 1)]
    /\ gov_pc' = "en_rd"
    /\ UNCHANGED <<gov_type, st_low, st_high, gov_val, gov_orig, gov_en, gov_ret,
                   temp_out, gov_calls, gov_op, gov_regs0>>
    /\ UNCHANGED <<socdata, regs_init, irq_vars, unit_vars>>

(* The writel of avs_tmon_set_trip_temp. *)
set_trips_thresh_write ==
    /\ gov_pc = "thr_wr"
    /\ regs' = [regs EXCEPT ![avs_tmon_trips(gov_type).reg_offs] =
                   trip_temp_merge(gov_orig, gov_val, gov_type)]
    /\ gov_pc' = "en_rd"
    /\ UNCHANGED <<gov_type, st_low, st_high, gov_val, gov_orig, gov_en, gov_ret,
                   temp_out, gov_calls, gov_op, gov_regs0>>
    /\ UNCHANGED <<socdata, regs_init, irq_vars, unit_vars>>

(* The readl of avs_tmon_trip_enable(.., 1). *)
set_trips_enable_read ==
    /\ gov_pc = "en_rd"
    /\ gov_val' = regs[avs_tmon_trips(gov_type).enable_offs]
    /\ gov_en' = 1
    /\ gov_pc' = "en_wr"
    /\ UNCHANGED <<gov_type, st_low, st_high, gov_orig, gov_ret, temp_out,
                   gov_calls, gov_op, gov_regs0>>
    /\ UNCHANGED <<hw_vars, irq_vars, unit_vars>>

(* The writel of avs_tmon_trip_enable; after HIGH, return 0. *)
set_trips_enable_write ==
    /\ gov_pc = "en_wr"
    /\ regs' = [regs EXCEPT ![avs_tmon_trips(gov_type).enable_offs] =
                   trip_enable_val(gov_val, gov_type, gov_en)]
    /\ IF gov_type = TMON_TRIP_TYPE_LOW
       THEN /\ gov_type' = TMON_TRIP_TYPE_HIGH
            /\ gov_pc' = "begin"
            /\ UNCHANGED <<gov_ret, gov_calls>>
       ELSE /\ gov_type' = TMON_TRIP_TYPE_LOW
            /\ gov_pc' = "idle"
            /\ gov_ret' = 0
            /\ gov_calls' = gov_calls + 1
    /\ gov_val' = {} /\ gov_orig' = {} /\ gov_en' = 0
    /\ UNCHANGED <<st_low, st_high, temp_out, gov_op, gov_regs0>>
    /\ UNCHANGED <<socdata, regs_init, irq_vars, unit_vars>>

brcmstb_set_trips_steps ==
    \/ set_trips_begin
    \/ set_trips_thresh_write
    \/ set_trips_enable_read
    \/ set_trips_enable_write

(* Each handler as one uninterrupted call on a register file. *)
irq_thread_serial(r) ==
    LET lo == avs_tmon_get_trip_temp(r, TMON_TRIP_TYPE_LOW)
        hi == avs_tmon_get_trip_temp(r, TMON_TRIP_TYPE_HIGH)
        i  == avs_tmon_get_intr_temp(r)
        r1 == IF i >= hi THEN avs_tmon_trip_enable(r, TMON_TRIP_TYPE_HIGH, 0) ELSE r
    IN  IF i <= lo THEN avs_tmon_trip_enable(r1, TMON_TRIP_TYPE_LOW, 0) ELSE r1

set_trips_one(r, type, l, h) ==
    IF trip_absent(type, l, h)
    THEN avs_tmon_trip_enable(r, type, 0)
    ELSE avs_tmon_trip_enable(
             avs_tmon_set_trip_temp(r, type, trip_bound(type, l, h)), type, 1)

set_trips_serial(r, l, h) ==
    set_trips_one(set_trips_one(r, TMON_TRIP_TYPE_LOW, l, h),
                  TMON_TRIP_TYPE_HIGH, l, h)

(* ------------------------------------------------------------------ *)
(* The driver: interrupt thread and governor interleaved               *)
(* ------------------------------------------------------------------ *)
IntCodes == {U32(650), U32(750), U32(850)}
InitThresh ==
    {ThreshWord(800, 700, {}), ThreshWord(700, 800, ThreshJunk)}
InitStatus == {{}, BIT(11) \cup BIT(10) \cup W_SHL(U32(300), 1)}
InitRegs ==
    {MkRegs(st, {0}, W_SHL(U32(100), 1), en, thr, ic) :
        st \in InitStatus, en \in EnWords, thr \in InitThresh, ic \in IntCodes}

LowArgs == {-INT_MAX, 40000}
HighArgs == {INT_MAX, 50000}

Init == brcmstb_thermal_probe(InitRegs, brcmstb_thermal_id_table)

brcmstb_set_trips ==
    \E l \in LowArgs, h \in HighArgs : set_trips_enter(l, h)

Next ==
    \/ brcmstb_tmon_irq_thread
    \/ brcmstb_get_temp
    \/ brcmstb_set_trips
    \/ brcmstb_set_trips_steps

Spec == Init /\ [][Next]_vars

(* ------------------------------------------------------------------ *)
(* The interrupt thread alone, over a wide set of register files       *)
(* ------------------------------------------------------------------ *)
TripCodes == {0, 700, 750, 800, 1023}
IrqEnWords == EnWords \cup {W_OR(e, EnJunk) : e \in EnWords}
IrqThresh ==
    {ThreshWord(lc, hc, j) : lc \in TripCodes, hc \in TripCodes,
                             j \in {{}, ThreshJunk}}
IrqIntCodes ==
    {U32(c) : c \in {0, 650, 700, 750, 800, 850, 1023}}
      \cup {W_OR(U32(750), {10, 31})}
IrqRegs ==
    {MkRegs({}, {0}, W_SHL(U32(100), 1), en, thr, ic) :
        en \in IrqEnWords, thr \in IrqThresh, ic \in IrqIntCodes}

InitIrq == brcmstb_thermal_probe(IrqRegs, brcmstb_thermal_id_table)
NextIrq == brcmstb_tmon_irq_thread
SpecIrq == InitIrq /\ [][NextIrq]_vars

(* ------------------------------------------------------------------ *)
(* brcmstb_set_trips alone, over a wide set of bounds                  *)
(* ------------------------------------------------------------------ *)
GovLowArgs ==
    {INT_MIN, -INT_MAX, -INT_MAX + 1, AVS_TMON_TEMP_MIN - 1, AVS_TMON_TEMP_MIN,
     20440, 40000, AVS_TMON_TEMP_OFFSET - 1, AVS_TMON_TEMP_OFFSET}
GovHighArgs ==
    {INT_MAX, INT_MAX - 1, AVS_TMON_TEMP_OFFSET, AVS_TMON_TEMP_OFFSET - 1,
     69140, 50000, AVS_TMON_TEMP_MIN, AVS_TMON_TEMP_MIN - 1}
GovRegs ==
    {MkRegs({}, {0}, W_SHL(U32(100), 1), en, thr, U32(750)) :
        en \in IrqEnWords,
        thr \in {ThreshWord(800, 700, {}), ThreshWord(700, 800, ThreshJunk),
                 ThreshWord(1023, 1023, ThreshJunk)}}

InitGov == brcmstb_thermal_probe(GovRegs, {bcm7445_thermal_of_data})
brcmstb_set_trips_wide ==
    \E l \in GovLowArgs, h \in GovHighArgs : set_trips_enter(l, h)
NextGov ==
    \/ brcmstb_set_trips_wide
    \/ brcmstb_set_trips_steps
SpecGov == InitGov /\ [][NextGov]_vars

(* ------------------------------------------------------------------ *)
(* brcmstb_get_temp alone, over every STATUS word on bits 0..11, with   *)
(* and without bits set above the fields                               *)
(* ------------------------------------------------------------------ *)
StatusFieldMax == 4095
StatusJunk == {12, 31}
StatusWords ==
    {W_OR(U32(n), j) : n \in 0..StatusFieldMax, j \in {{}, StatusJunk}}
GetTempRegs ==
    {MkRegs(st, {0}, W_SHL(U32(100), 1), {0, 1}, ThreshWord(800, 700, {}),
            U32(750)) : st \in StatusWords}

InitGetTemp == brcmstb_thermal_probe(GetTempRegs, brcmstb_thermal_id_table)
NextGetTemp == brcmstb_get_temp
SpecGetTemp == InitGetTemp /\ [][NextGetTemp]_vars

(* ------------------------------------------------------------------ *)
(* The trip register access layer called directly, one whole call per  *)
(* step, for all three trip types                                      *)
(* ------------------------------------------------------------------ *)
MaxAccCalls == 2

acc_trip_enable(type, en) ==
    /\ acc.n < MaxAccCalls
    /\ regs' = avs_tmon_trip_enable(regs, type, en)
    /\ acc' = [op |-> "trip_enable", type |-> type, arg |-> en,
               pre |-> regs, ret |-> 0, n |-> acc.n + 1]
    /\ acc_prev' = [op |-> acc.op, type |-> acc.type, arg |-> acc.arg]
    /\ UNCHANGED <<socdata, regs_init, irq_vars, gov_vars, cv>>

acc_set_trip_temp(type, temp) ==
    /\ acc.n < MaxAccCalls
    /\ regs' = avs_tmon_set_trip_temp(regs, type, temp)
    /\ acc' = [op |-> "set_trip_temp", type |-> type, arg |-> temp,
               pre |-> regs, ret |-> 0, n |-> acc.n + 1]
    /\ acc_prev' = [op |-> acc.op, type |-> acc.type, arg |-> acc.arg]
    /\ UNCHANGED <<socdata, regs_init, irq_vars, gov_vars, cv>>

acc_get_trip_temp(type) ==
    /\ acc.n < MaxAccCalls
    /\ acc' = [op |-> "get_trip_temp", type |-> type, arg |-> 0,
               pre |-> regs, ret |-> avs_tmon_get_trip_temp(regs, type),
               n |-> acc.n + 1]
    /\ acc_prev' = [op |-> acc.op, type |-> acc.type, arg |-> acc.arg]
    /\ UNCHANGED <<hw_vars, irq_vars, gov_vars, cv>>

AccTemps == {50000, 20440}
AccRegs ==
    {MkRegs({}, enr, W_SHL(U32(100), 1), en, ThreshWord(800, 700, {}), {}) :
        enr \in {{}, {0}}, en \in EnWords}
    \cup
    {MkRegs({}, W_OR(enr, {1, 31}), W_OR(W_SHL(U32(100), 1), {0, 11, 31}),
            W_OR(en, EnJunk), ThreshWord(800, 700, ThreshJunk), {}) :
        enr \in {{}, {0}}, en \in EnWords}

InitAccess == brcmstb_thermal_probe(AccRegs, {bcm7445_thermal_of_data})
NextAccess ==
    \/ \E type \in TripTypes, en \in {0, 1} : acc_trip_enable(type, en)
    \/ \E type \in TripTypes, temp \in AccTemps : acc_set_trip_temp(type, temp)
    \/ \E type \in TripTypes : acc_get_trip_temp(type)
SpecAccess == InitAccess /\ [][NextAccess]_vars

(* ------------------------------------------------------------------ *)
(* The converters applied to sampled inputs: every code 0..1023 with    *)
(* and without bits set above the code, every temperature within one    *)
(* of a code's exact temperature, a window at each end of the range,    *)
(* and the ends of the C int range                                      *)
(* ------------------------------------------------------------------ *)
ConvWindow == 3
ConvCodes ==
    {W_OR(U32(c), hi) : c \in 0..AVS_TMON_TEMP_MAX,
                        hi \in {{}, {10}, {31}, 10..31}}
ConvTemps ==
    {AVS_TMON_TEMP_OFFSET - k * AVS_TMON_TEMP_SLOPE + d :
        k \in 0..AVS_TMON_TEMP_MAX, d \in {-1, 0, 1}}
    \cup ((AVS_TMON_TEMP_MIN - ConvWindow * AVS_TMON_TEMP_SLOPE)
            .. (AVS_TMON_TEMP_MIN + ConvWindow * AVS_TMON_TEMP_SLOPE))
    \cup ((AVS_TMON_TEMP_OFFSET - ConvWindow * AVS_TMON_TEMP_SLOPE)
            .. (AVS_TMON_TEMP_OFFSET + ConvWindow * AVS_TMON_TEMP_SLOPE))
    \cup {INT_MIN, INT_MIN + 1, -1, 0, 1, 50000, INT_MAX - 1, INT_MAX}

conv_code_to_temp ==
    /\ cv.op = "none"
    /\ \E code \in ConvCodes :
          cv' = [op |-> "code_to_temp", code |-> code,
                 temp |-> avs_tmon_code_to_temp(code), low |-> FALSE,
                 back |-> {}]
    /\ UNCHANGED <<hw_vars, irq_vars, gov_vars, acc, acc_prev>>

conv_temp_to_code ==
    /\ cv.op = "none"
    /\ \E temp \in ConvTemps, rlow \in BOOLEAN :
          cv' = [op |-> "temp_to_code",
                 code |-> avs_tmon_temp_to_code(temp, rlow),
                 temp |-> temp, low |-> rlow, back |-> {}]
    /\ UNCHANGED <<hw_vars, irq_vars, gov_vars, acc, acc_prev>>

(* tempToCode applied to the result of codeToTemp. *)
conv_round_trip ==
    /\ cv.op = "code_to_temp"
    /\ \E rlow \in BOOLEAN :
          cv' = [cv EXCEPT !.op = "round_trip", !.low = rlow,
                           !.back = avs_tmon_temp_to_code(cv.temp, rlow)]
    /\ UNCHANGED <<hw_vars, irq_vars, gov_vars, acc, acc_prev>>

InitConv ==
    brcmstb_thermal_probe(
        {MkRegs({}, {}, {}, {}, {}, {})}, {bcm7445_thermal_of_data})
NextConv ==
    \/ conv_code_to_temp
    \/ conv_temp_to_code
    \/ conv_round_trip
SpecConv == InitConv /\ [][NextConv]_vars

(* ================================================================== *)
(* Properties                                                          *)
(* ================================================================== *)

(* The integer held in bits lo..lo+9 of a word. *)
Field10(w, lo) == (W_VAL(w \ {31}) \div (2 ^ lo)) % 1024

(* C8: for every code c in 0..1023, tempToCode(codeToTemp(c), FALSE)   *)
(* differs from c by at most 1, and equals c whenever 410040 minus the  *)
(* temperature is a whole multiple of 487 (no rounding takes place).    *)
C8_RoundTrip ==
    (cv.op = "round_trip" /\ ~cv.low /\ cv.code \subseteq 0..9) =>
        LET c == W_VAL(cv.code)
            b == W_VAL(cv.back)
        IN  /\ b - c \in {-1, 0, 1}
            /\ ((AVS_TMON_TEMP_OFFSET - cv.temp) % AVS_TMON_TEMP_SLOPE = 0
                    => b = c)

C8_Witness ==
    /\ cv.op = "round_trip" /\ ~cv.low
    /\ cv.code = U32(739) /\ cv.temp = 50147 /\ cv.back = U32(739)

(* C9: tempToCode saturates: a temperature below -88161 gives 1023, one *)
(* at or above 410040 gives 0, with either rounding; any other gives a   *)
(* code in 0..1023, which survives the shift into each 10-bit threshold  *)
(* field and the mask unchanged.                                         *)
C9_Saturation ==
    cv.op = "temp_to_code" =>
        /\ cv.temp < -88161 => cv.code = U32(1023)
        /\ cv.temp >= 410040 => cv.code = U32(0)
        /\ cv.code \subseteq 0..9
        /\ W_VAL(cv.code) \in 0..1023
        /\ \A type \in TripTypes :
              W_SHR(W_AND(W_SHL(cv.code, avs_tmon_trips(type).reg_shift),
                          avs_tmon_trips(type).reg_msk),
                    avs_tmon_trips(type).reg_shift) = cv.code

C9_Witness ==
    /\ cv.op = "temp_to_code" /\ cv.low
    /\ cv.temp = -88162 /\ cv.code = U32(1023)

(* C10: for -88161 <= t < 410040, tempToCode(t, TRUE) is the ceiling and *)
(* tempToCode(t, FALSE) the floor of (410040 - t) / 487; the two agree   *)
(* when 410040 - t is a multiple of 487 and otherwise the ceiling is one *)
(* greater.                                                              *)
C10_Rounding ==
    (cv.op = "temp_to_code" /\ cv.temp >= -88161 /\ cv.temp < 410040) =>
        LET n == 410040 - cv.temp
            q == W_VAL(cv.code)
            other == W_VAL(avs_tmon_temp_to_code(cv.temp, ~cv.low))
        IN  /\ cv.low => ((q - 1) * 487 < n /\ n <= q * 487)
            /\ ~cv.low => (q * 487 <= n /\ n < (q + 1) * 487)
            /\ (n % 487 = 0) => other = q
            /\ (n % 487 # 0) => other = (IF cv.low THEN q - 1 ELSE q + 1)

C10_Witness ==
    /\ cv.op = "temp_to_code" /\ cv.low /\ cv.temp = 50000
    /\ cv.code = U32(740)
    /\ avs_tmon_temp_to_code(cv.temp, FALSE) = U32(739)

(* The bits of a trip's threshold field and the register holding it,   *)
(* from the register layout: LOW bits 1..10 and HIGH bits 17..26 of     *)
(* INT_THRESH (offset 24), RESET bits 1..10 of RESET_THRESH (offset 8). *)
ThreshFieldBits(type) ==
    IF type = TMON_TRIP_TYPE_HIGH THEN 17..26 ELSE 1..10
ThreshFieldReg(type) ==
    IF type = TMON_TRIP_TYPE_RESET THEN 8 ELSE 24

(* C4: setTripTemperature(kind, t) changes only the bits of that kind's *)
(* threshold field: every other bit of the threshold register and every *)
(* other register keep their values; and when setTripTemperature(LOW)   *)
(* directly follows setTripTemperature(HIGH), getTripTemperature(HIGH)  *)
(* is what it was right after the first call.                           *)
C4_ThreshFrame ==
    acc.op = "set_trip_temp" =>
        /\ \A o \in RegOffsets \ {ThreshFieldReg(acc.type)} :
              regs[o] = acc.pre[o]
        /\ regs[ThreshFieldReg(acc.type)] \ ThreshFieldBits(acc.type)
             = acc.pre[ThreshFieldReg(acc.type)] \ ThreshFieldBits(acc.type)
        /\ (acc.type = TMON_TRIP_TYPE_LOW /\ acc_prev.op = "set_trip_temp"
              /\ acc_prev.type = TMON_TRIP_TYPE_HIGH) =>
                 avs_tmon_get_trip_temp(regs, TMON_TRIP_TYPE_HIGH)
                   = avs_tmon_get_trip_temp(acc.pre, TMON_TRIP_TYPE_HIGH)

C4_Witness ==
    /\ acc.op = "set_trip_temp" /\ acc.type = TMON_TRIP_TYPE_LOW
    /\ acc_prev.op = "set_trip_temp" /\ acc_prev.type = TMON_TRIP_TYPE_HIGH
    /\ acc.arg = 50000
    /\ Field10(regs[24], 1) = 740
    /\ Field10(acc.pre[24], 1) = 800
    /\ Field10(regs[24], 17) = 739
    /\ ThreshJunk \subseteq regs[24]

(* C5: after setTrips(low, high) has run to completion with no          *)
(* interrupt in between, each trip with a present bound (low > -INT_MAX,*)
(* high # INT_MAX) is enabled with its threshold field holding           *)
(* tempToCode(bound, kind = LOW), and each trip with an absent bound is  *)
(* disabled with its threshold field unchanged; the call returns 0.      *)
(* setTrips(-INT_MAX, 50000) leaves LOW disarmed and HIGH armed with     *)
(* code 739.                                                             *)
C5_SetTrips ==
    (gov_pc = "idle" /\ gov_op = "set_trips") =>
        /\ gov_ret = 0
        /\ IF st_low > -INT_MAX
           THEN /\ 0 \in regs[20]
                /\ Field10(regs[24], 1)
                     = W_VAL(avs_tmon_temp_to_code(st_low, TRUE))
           ELSE /\ 0 \notin regs[20]
                /\ Field10(regs[24], 1) = Field10(gov_regs0[24], 1)
        /\ IF st_high # INT_MAX
           THEN /\ 1 \in regs[20]
                /\ Field10(regs[24], 17)
                     = W_VAL(avs_tmon_temp_to_code(st_high, FALSE))
           ELSE /\ 1 \notin regs[20]
                /\ Field10(regs[24], 17) = Field10(gov_regs0[24], 17)
        /\ (st_low = -INT_MAX /\ st_high = 50000) =>
              /\ 0 \notin regs[20]
              /\ 1 \in regs[20]
              /\ Field10(regs[24], 17) = 739

C5_Witness ==
    /\ gov_pc = "idle" /\ gov_op = "set_trips" /\ gov_calls = 1
    /\ st_low = -INT_MAX /\ st_high = 50000
    /\ gov_regs0[20] = {0} /\ regs[20] = {1}
    /\ Field10(gov_regs0[24], 17) = 700 /\ Field10(regs[24], 17) = 739
    /\ Field10(regs[24], 1) = 800

(* The STATUS layout of the two variants: valid bit 11 and data bits    *)
(* 1..10 on bcm7445, valid bit 10 and data bits 0..9 on bcm2711.         *)
StatusValidBit == IF socdata.name = "bcm7445" THEN 11 ELSE 10
StatusDataLow == IF socdata.name = "bcm7445" THEN 1 ELSE 0

(* C6: getTemp called while the variant's valid bit of STATUS is 0      *)
(* returns -EIO (NotReady), leaves every register as it was and stores   *)
(* no temperature in the caller's output.                                *)
C6_NotReady ==
    (gov_op = "get_temp" /\ StatusValidBit \notin regs[0]) =>
        /\ gov_ret = -5
        /\ regs = gov_regs0
        /\ regs = regs_init
        /\ temp_out = <<>>

C6_Witness ==
    /\ gov_op = "get_temp" /\ gov_calls = 1 /\ gov_ret = -5
    /\ socdata.name = "bcm2711"
    /\ regs[0] = W_OR(U32(2048 + 739), StatusJunk)
    /\ temp_out = <<>>

(* C7: getTemp called while the valid bit is set returns 0 and stores   *)
(* max(0, 410040 - 487 * field), field being the variant's data bits of  *)
(* STATUS; the stored temperature is never negative.                     *)
C7_GetTemp ==
    (gov_op = "get_temp" /\ StatusValidBit \in regs[0]) =>
        LET t == 410040 - 487 * Field10(regs[0], StatusDataLow)
        IN  /\ gov_ret = 0
            /\ temp_out = <<IF t < 0 THEN 0 ELSE t>>
            /\ temp_out[1] >= 0

C7_Witness ==
    /\ gov_op = "get_temp" /\ gov_calls = 1 /\ gov_ret = 0
    /\ socdata.name = "bcm7445"
    /\ regs[0] = U32(2048 + 2 * 1000 + 1)
    /\ 410040 - 487 * 1000 < 0
    /\ temp_out = <<0>>

(* The temperatures the last handler run started from. *)
Intr0 == avs_tmon_get_intr_temp(irq_regs0)
High0 == avs_tmon_get_trip_temp(irq_regs0, TMON_TRIP_TYPE_HIGH)
Low0 == avs_tmon_get_trip_temp(irq_regs0, TMON_TRIP_TYPE_LOW)
IrqReturned == irq_pc = "idle" /\ irq_runs >= 1

(* C1, as claimed: when the handler has run with a triggering           *)
(* temperature >= the HIGH threshold, HIGH is disabled, the LOW enable   *)
(* bit is what it was before the run, and one notification carrying the  *)
(* triggering temperature was sent.                                      *)
C1_AsClaimed ==
    (IrqReturned /\ Intr0 >= High0) =>
        /\ 1 \notin regs[20]
        /\ (0 \in regs[20]) = (0 \in irq_regs0[20])
        /\ Len(zone_updates) = irq_runs
        /\ zone_updates[irq_runs] = Intr0

(* C1, amended: when the handler has run, with no governor call in      *)
(* between, with a triggering temperature >= the HIGH threshold, HIGH is *)
(* disabled; the LOW enable bit is what it was before the run if the     *)
(* triggering temperature is above the LOW threshold and is clear        *)
(* otherwise; every other bit of the enable word is unchanged; and one   *)
(* notification carrying the triggering temperature was sent.            *)
C1_HighCrossed ==
    (IrqReturned /\ Intr0 >= High0) =>
        /\ 1 \notin regs[20]
        /\ IF Intr0 > Low0
           THEN (0 \in regs[20]) = (0 \in irq_regs0[20])
           ELSE 0 \notin regs[20]
        /\ regs[20] \ {0, 1} = irq_regs0[20] \ {0, 1}
        /\ Len(zone_updates) = irq_runs
        /\ zone_updates[irq_runs] = Intr0

C1_Witness ==
    /\ IrqReturned
    /\ Intr0 = High0 /\ Intr0 > Low0
    /\ irq_regs0[20] = W_OR({0, 1}, EnJunk)
    /\ regs[20] = W_OR({0}, EnJunk)
    /\ zone_updates = <<Intr0>>

(* C2, as claimed: an enable bit of EN_TEMP_INT_SRCS goes from 0 to 1   *)
(* only in the enable write of a setTrips call for a present bound of    *)
(* that trip; no write of the interrupt handler sets one.                *)
C2_OnlySetTripsArms ==
    [][\A type \in {TMON_TRIP_TYPE_LOW, TMON_TRIP_TYPE_HIGH} :
          (type \notin regs[20] /\ type \in regs'[20]) =>
              /\ gov_pc = "en_wr" /\ gov_pc' # "en_wr"
              /\ irq_pc' = irq_pc
              /\ gov_type = type
              /\ gov_en = 1
              /\ ~trip_absent(type, st_low, st_high)]_vars

(* C3, as claimed: after one handler run and one setTrips call, however *)
(* interleaved, the enable word is the one that running the two in one   *)
(* of the two serial orders produces.                                    *)
C3_Serializable ==
    (irq_pc = "idle" /\ irq_runs = 1 /\ gov_pc = "idle" /\ gov_calls = 1
       /\ gov_op = "set_trips") =>
        regs[20] \in
            {set_trips_serial(irq_thread_serial(regs_init), st_low, st_high)[20],
             irq_thread_serial(set_trips_serial(regs_init, st_low, st_high))[20]}


(* The enable bit of a trip and the register holding it, from the       *)
(* register layout: LOW bit 0 and HIGH bit 1 of EN_TEMP_INT_SRCS         *)
(* (offset 20), RESET bit 0 of EN_OVERTEMP_RESET (offset 4).             *)
EnableBit(type) == IF type = TMON_TRIP_TYPE_HIGH THEN 1 ELSE 0
EnableReg(type) == IF type = TMON_TRIP_TYPE_RESET THEN 4 ELSE 20

(* C11: setTripEnabled(kind, enabled) changes at most the enable bit of *)
(* that kind: every other bit of its enable register and every other     *)
(* register are unchanged, afterwards the bit equals 'enabled', and a    *)
(* second call with the same arguments changes nothing.                  *)
C11_EnableFrame ==
    acc.op = "trip_enable" =>
        /\ \A o \in RegOffsets \ {EnableReg(acc.type)} : regs[o] = acc.pre[o]
        /\ regs[EnableReg(acc.type)] \ {EnableBit(acc.type)}
             = acc.pre[EnableReg(acc.type)] \ {EnableBit(acc.type)}
        /\ (EnableBit(acc.type) \in regs[EnableReg(acc.type)]) = (acc.arg # 0)
        /\ (acc_prev.op = "trip_enable" /\ acc_prev.type = acc.type
              /\ acc_prev.arg = acc.arg) => regs = acc.pre

C11_Witness ==
    /\ acc.op = "trip_enable" /\ acc.type = TMON_TRIP_TYPE_RESET /\ acc.arg = 0
    /\ acc_prev.op = "trip_enable" /\ acc_prev.type = TMON_TRIP_TYPE_RESET
    /\ acc_prev.arg = 0
    /\ regs_init[4] = {0, 1, 31}
    /\ regs[4] = {1, 31}
    /\ regs[20] = regs_init[20] /\ regs[20] = W_OR({0, 1}, EnJunk)


(* The handler runs in its own kernel thread and never waits: once      *)
(* started it is scheduled until it returns.                            *)
FairRegs ==
    {MkRegs(BIT(11) \cup BIT(10) \cup W_SHL(U32(300), 1), {0},
            W_SHL(U32(100), 1), {0, 1}, thr, U32(750)) : thr \in InitThresh}
InitFair == brcmstb_thermal_probe(FairRegs, brcmstb_thermal_id_table)
brcmstb_set_trips_fair ==
    \E h \in HighArgs : set_trips_enter(40000, h)
NextFair ==
    \/ brcmstb_tmon_irq_thread
    \/ brcmstb_get_temp
    \/ brcmstb_set_trips_fair
    \/ brcmstb_set_trips_steps
SpecFair == InitFair /\ [][NextFair]_vars /\ WF_vars(brcmstb_tmon_irq_thread)

(* C12: every invocation of the interrupt handler terminates, returns   *)
(* IRQ_HANDLED and has sent exactly one notification, whose value is the *)
(* temperature decoded from TEMP_INT_CODE, whichever trips were crossed  *)
(* and whatever the governor does meanwhile.                             *)
C12_AlwaysNotifies ==
    /\ [](/\ Len(zone_updates) = irq_runs
          /\ \A i \in 1..Len(zone_updates) :
                zone_updates[i] = 410040 - 487 * Field10(regs[28], 0)
          /\ irq_runs >= 1 => irq_ret = 1)
    /\ ((irq_pc # "idle") ~> (irq_pc = "idle"))

C12_Witness ==
    /\ irq_pc = "idle" /\ irq_runs = 1 /\ irq_ret = 1
    /\ regs[20] = regs_init[20] /\ regs[20] = {0, 1}
    /\ Field10(regs[28], 0) = 750
    /\ zone_updates = <<44790>>
    /\ gov_pc = "en_wr"

(* C13: right after probe, and until the governor's first set_trips     *)
(* call begins, the LOW and HIGH enable bits are both 0.                 *)
C13_DisarmedAtAttach ==
    (gov_calls = 0 /\ gov_op # "set_trips") =>
        (0 \notin regs[20] /\ 1 \notin regs[20])

(* C14: the sentinels are asymmetric.  After a completed setTrips, LOW  *)
(* is disarmed exactly when low <= -INT_MAX (both INT_MIN and -INT_MAX  *)
(* mean no low bound) and low = -INT_MAX + 1 arms LOW with the saturated *)
(* code 1023; HIGH is disarmed exactly when high = INT_MAX and           *)
(* high = INT_MAX - 1 arms HIGH with code 0.                             *)
C14_Sentinels ==
    (gov_pc = "idle" /\ gov_op = "set_trips") =>
        /\ (0 \notin regs[20]) = (st_low <= -2147483647)
        /\ (1 \notin regs[20]) = (st_high = 2147483647)
        /\ st_low \in {-2147483647 - 1, -2147483647} =>
              Field10(regs[24], 1) = Field10(gov_regs0[24], 1)
        /\ st_low = -2147483646 =>
              (0 \in regs[20] /\ Field10(regs[24], 1) = 1023)
        /\ st_high = 2147483646 =>
              (1 \in regs[20] /\ Field10(regs[24], 17) = 0)

C14_Witness ==
    /\ gov_pc = "idle" /\ gov_op = "set_trips" /\ gov_calls = 1
    /\ st_low = -2147483646 /\ st_high = 2147483646
    /\ gov_regs0[20] = {} /\ regs[20] = {0, 1}
    /\ Field10(gov_regs0[24], 1) = 800 /\ Field10(regs[24], 1) = 1023
    /\ Field10(gov_regs0[24], 17) = 700 /\ Field10(regs[24], 17) = 0

(* C15: the RESET trip is never touched.  In every reachable state of   *)
(* the driver, whatever handler runs, getTemp calls and setTrips calls   *)
(* have interleaved, EN_OVERTEMP_RESET and RESET_THRESH hold their       *)
(* initial values.                                                       *)
C15_ResetUntouched ==
    /\ regs[4] = regs_init[4]
    /\ regs[8] = regs_init[8]

C15_Witness ==
    /\ irq_runs = 1 /\ irq_pc = "idle"
    /\ gov_calls = 1 /\ gov_pc = "idle" /\ gov_op = "set_trips"
    /\ st_low = 40000 /\ st_high = 50000
    /\ regs[24] # regs_init[24]
    /\ regs_init[20] = {0, 1}
    /\ regs[4] = {0} /\ Field10(regs[8], 1) = 100

(* C16: one run of the handler, with no governor call in between,       *)
(* leaves HIGH armed exactly when it was armed and the triggering        *)
(* temperature is below the HIGH threshold, leaves LOW armed exactly     *)
(* when it was armed and the triggering temperature is above the LOW     *)
(* threshold, and writes nothing but those two bits: the threshold word  *)
(* and every other register are as they were.  So both trips are         *)
(* disarmed when LOW threshold >= triggering temperature >= HIGH         *)
(* threshold, and neither strictly between the thresholds.               *)
C16_OneRun ==
    IrqReturned =>
        LET it == 410040 - 487 * Field10(irq_regs0[28], 0)
            ht == 410040 - 487 * Field10(irq_regs0[24], 17)
            lt == 410040 - 487 * Field10(irq_regs0[24], 1)
        IN  /\ (1 \in regs[20]) = (1 \in irq_regs0[20] /\ it < ht)
            /\ (0 \in regs[20]) = (0 \in irq_regs0[20] /\ it > lt)
            /\ regs[20] \ {0, 1} = irq_regs0[20] \ {0, 1}
            /\ \A o \in RegOffsets \ {20} : regs[o] = irq_regs0[o]
            /\ (lt >= it /\ it >= ht) => regs[20] \cap {0, 1} = {}
            /\ (lt < it /\ it < ht) =>
                  regs[20] \cap {0, 1} = irq_regs0[20] \cap {0, 1}

C16_Witness ==
    /\ IrqReturned
    /\ Field10(irq_regs0[24], 1) = 700
    /\ Field10(irq_regs0[24], 17) = 800
    /\ Field10(irq_regs0[28], 0) = 750
    /\ irq_regs0[20] = W_OR({0, 1}, EnJunk)
    /\ regs[20] = EnJunk
    /\ regs[24] = irq_regs0[24] /\ ThreshJunk \subseteq regs[24]

(* A trip whose arming by the current or last setTrips call is complete: *)
(* the bound is present and the call has finished with that trip.        *)
ArmedBySetTrips(type) ==
    /\ gov_op = "set_trips"
    /\ ~trip_absent(type, st_low, st_high)
    /\ \/ gov_pc = "idle"
       \/ type = TMON_TRIP_TYPE_LOW /\ gov_type = TMON_TRIP_TYPE_HIGH

(* C17: no trip event is lost under interleaving.  Whenever the         *)
(* handler's enable write disarms a trip that setTrips has armed, the    *)
(* handler's triggering temperature crosses the threshold held in        *)
(* INT_THRESH at that moment: >= it for HIGH, <= it for LOW.             *)
C17_NoStaleDisarm ==
    [][\A type \in {TMON_TRIP_TYPE_LOW, TMON_TRIP_TYPE_HIGH} :
          (/\ irq_pc = "wr" /\ irq_pc' # "wr" /\ irq_type = type
           /\ EnableBit(type) \in regs[20]
           /\ EnableBit(type) \notin regs'[20]
           /\ ArmedBySetTrips(type)) =>
              IF type = TMON_TRIP_TYPE_HIGH
              THEN intr >= 410040 - 487 * Field10(regs[24], 17)
              ELSE intr <= 410040 - 487 * Field10(regs[24], 1)]_vars

(* C18: the window programmed by setTrips is never narrower than the    *)
(* requested one.  After a completed setTrips(low, high) with no         *)
(* interrupt in between, for a present low in -88161 <= low < 410040,    *)
(* low - 487 < getTripTemperature(LOW) <= low; for a present high in the *)
(* same range, high <= getTripTemperature(HIGH) < high + 487; and a      *)
(* present bound equal to 410040 - 487 * c for a code c in 0..1023 is    *)
(* stored as exactly the code c, for both kinds.                         *)
C18_WindowNotNarrower ==
    (gov_pc = "idle" /\ gov_op = "set_trips") =>
        LET lowT == avs_tmon_get_trip_temp(regs, TMON_TRIP_TYPE_LOW)
            highT == avs_tmon_get_trip_temp(regs, TMON_TRIP_TYPE_HIGH)
            OnGrid(t) == t >= -88161 /\ t <= 410040 /\ (410040 - t) % 487 = 0
        IN  /\ (st_low >= -88161 /\ st_low < 410040) =>
                  (st_low - 487 < lowT /\ lowT <= st_low)
            /\ (st_high >= -88161 /\ st_high < 410040) =>
                  (st_high <= highT /\ highT < st_high + 487)
            /\ OnGrid(st_low) =>
                  Field10(regs[24], 1) = (410040 - st_low) \div 487
            /\ OnGrid(st_high) =>
                  Field10(regs[24], 17) = (410040 - st_high) \div 487

C18_Witness ==
    /\ gov_pc = "idle" /\ gov_op = "set_trips" /\ gov_calls = 1
    /\ st_low = 40000 /\ st_high = 50000
    /\ avs_tmon_get_trip_temp(regs, TMON_TRIP_TYPE_LOW) = 39920
    /\ avs_tmon_get_trip_temp(regs, TMON_TRIP_TYPE_HIGH) = 50147
    /\ Field10(gov_regs0[24], 1) = 1023 /\ Field10(gov_regs0[24], 17) = 1023
    /\ regs[20] \cap {0, 1} = {0, 1}

(* C19: within setTrips the threshold is written before the enable bit  *)
(* is set, and LOW is fully processed before HIGH.  In every state of a  *)
(* setTrips call, intermediate ones included, a trip that was disarmed   *)
(* at the call's entry and is armed now already holds the code of the    *)
(* requested bound in its threshold field; while LOW is being processed  *)
(* HIGH's enable bit and field are still those at entry; and once HIGH   *)
(* is being processed LOW is in its final state.                         *)
C19_ThresholdBeforeEnable ==
    gov_op = "set_trips" =>
        LET lowCode == W_VAL(avs_tmon_temp_to_code(st_low, TRUE))
            highCode == W_VAL(avs_tmon_temp_to_code(st_high, FALSE))
        IN  /\ (0 \notin gov_regs0[20] /\ 0 \in regs[20]) =>
                  Field10(regs[24], 1) = lowCode
            /\ (1 \notin gov_regs0[20] /\ 1 \in regs[20]) =>
                  Field10(regs[24], 17) = highCode
            /\ (gov_pc # "idle" /\ gov_type = TMON_TRIP_TYPE_LOW) =>
                  /\ (1 \in regs[20]) = (1 \in gov_regs0[20])
                  /\ Field10(regs[24], 17) = Field10(gov_regs0[24], 17)
            /\ (gov_pc # "idle" /\ gov_type = TMON_TRIP_TYPE_HIGH) =>
                  IF st_low > -2147483647
                  THEN 0 \in regs[20] /\ Field10(regs[24], 1) = lowCode
                  ELSE /\ 0 \notin regs[20]
                       /\ Field10(regs[24], 1) = Field10(gov_regs0[24], 1)

C19_Witness ==
    /\ gov_op = "set_trips" /\ gov_pc = "en_rd"
    /\ gov_type = TMON_TRIP_TYPE_HIGH
    /\ st_low = 40000 /\ st_high = 50000
    /\ gov_regs0[20] = EnJunk /\ regs[20] = W_OR({0}, EnJunk)
    /\ Field10(gov_regs0[24], 1) = 700 /\ Field10(regs[24], 1) = 760
    /\ Field10(gov_regs0[24], 17) = 800 /\ Field10(regs[24], 17) = 739

(* C20: codeToTemp(code) = 410040 - (code & 0x3FF) * 487 for every      *)
(* 32-bit code.  It depends only on the low 10 bits, gives 410040 for    *)
(* code 0 and -88161 for code 1023, always lies in -88161..410040, and   *)
(* is strictly decreasing over the codes 0..1023: each code's            *)
(* temperature is below that of the code before it.                      *)
C20_CodeToTemp ==
    cv.op = "code_to_temp" =>
        LET c == Field10(cv.code, 0)
        IN  /\ cv.temp = 410040 - c * 487
            /\ cv.temp = avs_tmon_code_to_temp(cv.code \cap (0..9))
            /\ cv.temp >= -88161 /\ cv.temp <= 410040
            /\ c = 0 => cv.temp = 410040
            /\ c = 1023 => cv.temp = -88161
            /\ c > 0 => cv.temp < avs_tmon_code_to_temp(U32(c - 1))

C20_Witness ==
    /\ cv.op = "code_to_temp"
    /\ cv.code = W_OR(U32(1023), 10..31)
    /\ cv.temp = -88161

=============================================================================
